---- MODULE Spec2Model ----
(***************************************************************************)
(* LDIMS MCP service: the retrying error handler (utils/error-handler.ts), *)
(* the tool calls built on it (index.ts, services/ldims-api.ts), the       *)
(* session router, tool calls and health endpoint of the HTTP server       *)
(* (http/server.ts), and the startup of the stdio servers.                 *)
(*                                                                         *)
(* Texts are sequences of words: "a includes b" is "b is one of the words  *)
(* of a", string concatenation is \o.  Matching is exact (case-sensitive), *)
(* as String.prototype.includes is.  An optional field is a sequence of    *)
(* length 0 (undefined) or 1 (the value).                                  *)
(***************************************************************************)
EXTENDS Integers, Sequences, FiniteSets, TLC

\* ------------------------------------------------------------------ bounds
MaxAttemptsBound == 3
MaxCalls == 1
MaxRequests == 3
MaxInFlight == 2
MaxClassifications == 103

\* -------------------------------------------------------- program constants
maxHistorySize == 100
DefaultRetryDelay == 1000
ConnectionRetryAfter == 5000

VARIABLES
  config,        \* McpErrorHandler.config: maxRetryAttempts, defaultRetryDelay
  stats,         \* McpErrorHandler.stats: totalErrors, errorsByCode, errorsBySeverity
  errorHistory,  \* McpErrorHandler.errorHistory
  pc,            \* position of the call in progress
  server,        \* "none": executeWithRetry called directly; "stdio" (index.ts) or
                 \* "http" (http/server.ts): the server whose CallTool handler runs
  tool,          \* "none": executeWithRetry called directly; otherwise the tool called
  args,          \* request.params.arguments of the tool call
  operation,     \* operation argument of executeWithRetry: the failures it may throw
  context,       \* context argument of executeWithRetry
  attempt,       \* loop variable of executeWithRetry
  lastError,     \* local lastError of executeWithRetry
  invocations,   \* number of times operation() has been invoked in this call
  failures,      \* what each failed invocation threw, in order
  classified,    \* what handleError returned for each of them, in order
  delays,        \* the delays slept between attempts, in order
  outcome,       \* how executeWithRetry ended
  backendLog,    \* what the backend did at each attempt of a tool call, in order
  toolResult,    \* result returned by the CallTool handler
  calls,         \* calls started so far
  transports,    \* HttpMcpServer.transports: session id -> transport
  created,       \* the StreamableHTTPServerTransport objects constructed so far
  mcpTransport,  \* the transport this.mcpServer was connected to last
  requests,      \* the requests handed to a transport and not yet answered, oldest first
  answered,      \* the request answered last, with its response
  received,      \* number of requests received on /mcp so far
  seenIds,       \* every session id that has ever been a key of transports
  transportHasOn,\* whether a transport object has an "on" method
  handled,       \* what handleError returned since the last clearStats, in order
  handledTotal,  \* number of handleMcpError calls made so far
  recent,        \* the last getRecentErrors call: its limit and what it returned
  entry,         \* the program started: "index" (index.ts of the stdio server with
                 \* both tools), "main" (src/index.ts) or "http" (http/server.ts)
  env,           \* process.env as far as the configuration reads it
  startup,       \* how far the startup of the program has come
  ldimsApi,      \* whether the LdimsApiService has been constructed
  health         \* the last response of the /health endpoint

retryVars == <<config, stats, errorHistory, pc, server, tool, args, operation, context, attempt, lastError,
               invocations, failures, classified, delays, outcome, backendLog,
               toolResult, calls>>

routerVars == <<transports, created, mcpTransport, requests, answered, received,
                seenIds, transportHasOn>>

handlerVars == <<handled, handledTotal, recent>>

serverVars == <<entry, env, startup, ldimsApi, health>>

\* ------------------------------------------------------------------ values
Severities == {"low", "medium", "high", "critical"}

Codes == {"INVALID_PARAMS", "RESOURCE_NOT_FOUND", "TOOL_NOT_FOUND",
          "API_CONNECTION_FAILED", "API_TIMEOUT", "API_RATE_LIMITED",
          "API_SERVER_ERROR", "INTERNAL_ERROR", "UNKNOWN_ERROR"}

NullValue == [class |-> "null"]

includes(message, word) == \E i \in 1..Len(message) : message[i] = word

\* new McpError(code, message, options): severity defaults to MEDIUM,
\* recoverable to false; the other options stay undefined when absent.
McpError(code, message, severity, recoverable, retryAfter, userMessage, details) ==
  [class |-> "McpError", code |-> code, message |-> message,
   severity |-> IF severity = <<>> THEN "medium" ELSE severity[1],
   recoverable |-> IF recoverable = <<>> THEN FALSE ELSE recoverable[1],
   retryAfter |-> retryAfter, userMessage |-> userMessage, details |-> details]

apiConnectionFailed(message, details) ==
  McpError("API_CONNECTION_FAILED", message, <<"high">>, <<TRUE>>,
           <<ConnectionRetryAfter>>, <<"service temporarily unavailable, retry later">>,
           details)

internalError(message) ==
  McpError("INTERNAL_ERROR", message, <<"critical">>, <<FALSE>>, <<>>,
           <<"internal system error, contact the administrator">>, <<>>)

handleZodError(error) ==
  McpError("INVALID_PARAMS", <<"parameter validation failed:">> \o error.issues,
           <<"low">>, <<TRUE>>, <<>>, <<"check the input parameter format">>,
           <<[kind |-> "validationErrors", context |-> <<>>]>>)

\* handleGenericError without its test for "fetch"
handleGenericErrorNoFetch(error, cfg) ==
  IF includes(error.message, "network")
  THEN apiConnectionFailed(error.message,
                           <<[kind |-> "originalError", context |-> <<>>]>>)
  ELSE IF includes(error.message, "timeout")
  THEN McpError("API_TIMEOUT", error.message, <<"medium">>, <<TRUE>>,
                <<cfg.defaultRetryDelay>>, <<"request timed out, retry later">>, <<>>)
  ELSE IF includes(error.message, "not found")
  THEN McpError("RESOURCE_NOT_FOUND", error.message, <<"medium">>, <<FALSE>>, <<>>,
                <<"the requested resource does not exist">>, <<>>)
  ELSE internalError(error.message)

handleGenericError(error, cfg) ==
  IF includes(error.message, "fetch") \/ includes(error.message, "network")
  THEN apiConnectionFailed(error.message,
                           <<[kind |-> "originalError", context |-> <<>>]>>)
  ELSE IF includes(error.message, "timeout")
  THEN McpError("API_TIMEOUT", error.message, <<"medium">>, <<TRUE>>,
                <<cfg.defaultRetryDelay>>, <<"request timed out, retry later">>, <<>>)
  ELSE IF includes(error.message, "not found")
  THEN McpError("RESOURCE_NOT_FOUND", error.message, <<"medium">>, <<FALSE>>, <<>>,
                <<"the requested resource does not exist">>, <<>>)
  ELSE internalError(error.message)

\* The McpError that handleError(error, context) returns (its statistics are
\* recordError / recordHistory below).
handleError(error, ctx, cfg) ==
  LET mcpError ==
        IF error.class = "McpError" THEN error
        ELSE IF error.class = "ZodError" THEN handleZodError(error)
        ELSE IF error.class = "Error" THEN handleGenericError(error, cfg)
        ELSE McpError("UNKNOWN_ERROR", <<"unknown error:", error.class>>,
                      <<"medium">>, <<>>, <<>>, <<>>,
                      <<[kind |-> "originalError", context |-> ctx]>>)
  IN IF ctx # <<>> /\ mcpError.details # <<>>
     THEN [mcpError EXCEPT !.details = <<[@[1] EXCEPT !.context = ctx]>>]
     ELSE mcpError

\* recordError without its count by severity
recordErrorNoSeverity(st, error) ==
  [totalErrors |-> st.totalErrors + 1,
   errorsByCode |-> [st.errorsByCode EXCEPT ![error.code] = @ + 1],
   errorsBySeverity |-> st.errorsBySeverity]

recordError(st, error) ==
  [totalErrors |-> st.totalErrors + 1,
   errorsByCode |-> [st.errorsByCode EXCEPT ![error.code] = @ + 1],
   errorsBySeverity |-> [st.errorsBySeverity EXCEPT ![error.severity] = @ + 1]]

\* recordHistory dropping the new entry, not the oldest, when the history is full
recordHistoryKeepsOldest(history, error) ==
  LET pushed == Append(history, error)
  IN IF Len(pushed) > maxHistorySize THEN history ELSE pushed

recordHistory(history, error) ==
  LET pushed == Append(history, error)
  IN IF Len(pushed) > maxHistorySize THEN Tail(pushed) ELSE pushed

EmptyStats ==
  [totalErrors |-> 0,
   errorsByCode |-> [c \in Codes |-> 0],
   errorsBySeverity |-> [s \in Severities |-> 0]]

\* shouldRetry without its test of the recoverable flag
shouldRetryUnrecoverable(error, attemptCount, cfg) ==
  /\ attemptCount < cfg.maxRetryAttempts
  /\ error.severity # "critical"

\* shouldRetry without its severity test
shouldRetryAnySeverity(error, attemptCount, cfg) ==
  /\ error.recoverable
  /\ attemptCount < cfg.maxRetryAttempts

shouldRetry(error, attemptCount, cfg) ==
  /\ error.recoverable
  /\ attemptCount < cfg.maxRetryAttempts
  /\ error.severity # "critical"

RECURSIVE Pow(_, _)
Pow(b, e) == IF e <= 0 THEN 1 ELSE b * Pow(b, e - 1)

\* getRetryDelay doubling once too often
getRetryDelayDoubled(error, attemptCount, cfg) ==
  LET baseDelay == IF error.retryAfter = <<>> THEN cfg.defaultRetryDelay
                   ELSE error.retryAfter[1]
  IN baseDelay * Pow(2, attemptCount)

getRetryDelay(error, attemptCount, cfg) ==
  LET baseDelay == IF error.retryAfter = <<>> THEN cfg.defaultRetryDelay
                   ELSE error.retryAfter[1]
  IN baseDelay * Pow(2, attemptCount - 1)


\* ------------------------------------------------- services/ldims-api.ts
LdimsApiError(code, message) ==
  [class |-> "Error", name |-> "LdimsApiError", code |-> code, message |-> message]

\* What fetch and the backend can do to one request of getDocumentFileContent.
\* A refused connection makes fetch reject with TypeError "fetch failed"; an
\* expired timer aborts the request and fetch rejects with an AbortError.
ConnectionRefused ==
  [kind |-> "reject", name |-> "TypeError", message |-> <<"fetch", "failed">>]
Aborted ==
  [kind |-> "reject", name |-> "AbortError",
   message |-> <<"This", "operation", "was", "aborted">>]
BackendOutcomes ==
  { [kind |-> "ok"], ConnectionRefused, Aborted,
    [kind |-> "status", status |-> 401, statusText |-> <<"Unauthorized">>],
    [kind |-> "status", status |-> 403, statusText |-> <<"Forbidden">>],
    [kind |-> "status", status |-> 404, statusText |-> <<"Not Found">>],
    [kind |-> "status", status |-> 500, statusText |-> <<"Internal", "Server", "Error">>],
    [kind |-> "badjson"],
    [kind |-> "failure", code |-> <<"FILE_ERROR">>, message |-> <<"file", "not found">>],
    [kind |-> "failure", code |-> <<"FILE_ERROR">>,
     message |-> <<"network", "share", "not found">>],
    [kind |-> "malformed"],
    [kind |-> "nodata"] }

\* The inner try of getDocumentFileContent on one backend outcome: what it throws.
requestThrows(b, timeout) ==
  IF b.kind = "reject"
  THEN [class |-> "Error", name |-> b.name, message |-> b.message]
  ELSE IF b.kind = "status"
  THEN LdimsApiError(<<"HTTP", ToString(b.status)>>,
                     <<"HTTP", "request", "failed:", ToString(b.status)>> \o b.statusText)
  ELSE IF b.kind = "badjson"
  THEN [class |-> "Error", name |-> "SyntaxError",
        message |-> <<"Unexpected", "token", "in", "JSON">>]
  ELSE IF b.kind = "malformed"
  THEN [class |-> "Error", name |-> "ZodError", message |-> <<"invalid", "envelope">>]
  ELSE IF b.kind = "failure"
  THEN LdimsApiError(b.code, b.message)
  ELSE LdimsApiError(<<"NO_DATA">>, <<"API", "response", "missing", "data", "field">>)

\* The outer catch of getDocumentFileContent: what it rethrows for e.
rethrown(e, timeout) ==
  IF e.name = "LdimsApiError" THEN e
  ELSE IF e.name = "AbortError"
  THEN LdimsApiError(<<"TIMEOUT">>, <<"Request", "timeout", "after", timeout>>)
  ELSE IF includes(e.message, "fetch")
  THEN LdimsApiError(<<"NETWORK_ERROR">>, <<"Network", "request", "failed:">> \o e.message)
  ELSE LdimsApiError(<<"INTERNAL_ERROR">>, <<"Internal", "error:">> \o e.message)

\* getDocumentFileContent(fileId) on one backend outcome: the value returned or
\* the error thrown.
getDocumentFileContent(fileId, b) ==
  IF b.kind = "ok" THEN [kind |-> "return", value |-> <<"content of", fileId>>]
  ELSE [kind |-> "throw", error |-> rethrown(requestThrows(b, "30000ms"), "30000ms")]

\* What makeRequest throws on one backend outcome that makes it throw.
makeRequestThrows(b) ==
  IF b.kind = "reject"
  THEN IF b.name = "AbortError"
       THEN LdimsApiError(<<"TIMEOUT">>, <<"Request", "timeout">>)
       ELSE [class |-> "Error", name |-> b.name, message |-> b.message]
  ELSE IF b.kind = "status"
  THEN LdimsApiError(<<"HTTP", ToString(b.status)>>,
                     <<"HTTP", "request", "failed:", ToString(b.status)>> \o b.statusText)
  ELSE [class |-> "Error", name |-> "SyntaxError",
        message |-> <<"Unexpected", "token", "in", "JSON">>]

\* the schema with max(51) in place of max(50)
SearchDocumentsSchemaAccepts51(params) ==
  /\ params # <<>>
  /\ params[1].query # ""
  /\ params[1].maxResults # <<>> => params[1].maxResults[1] \in 1..51

\* SearchDocumentsSchema.parse(params) accepts the parameters: query of at
\* least one character, maxResults absent or an integer of 1..50.
SearchDocumentsSchemaAccepts(params) ==
  /\ params # <<>>
  /\ params[1].query # ""
  /\ params[1].maxResults # <<>> => params[1].maxResults[1] \in 1..50

\* validatedArgs: maxResults defaults to 5.
validatedArgs(params) ==
  [query |-> params[1].query,
   maxResults |-> IF params[1].maxResults = <<>> THEN <<5>> ELSE params[1].maxResults]

\* searchDocuments gets as far as makeRequest
SearchIssuesRequest(params) == SearchDocumentsSchemaAccepts(params)

\* { isError: true, errorCode: "SEARCH_FAILED", errorMessage, errorDetails }
SearchFailed(errorMessage) ==
  [isError |-> TRUE, errorCode |-> "SEARCH_FAILED", errorMessage |-> errorMessage]

isErrorResponse(response) == "isError" \in DOMAIN response /\ response.isError = TRUE

\* searchDocuments(params) on one backend outcome: the value returned or the
\* error thrown.  Everything thrown inside its try is turned into an error
\* value by its catch, which reads params.query to build that value: with
\* params undefined that read throws a TypeError out of the catch.
searchDocuments(params, b) ==
  IF params = <<>>
  THEN [kind |-> "throw",
        error |-> [class |-> "Error", name |-> "TypeError",
                   message |-> <<"Cannot", "read", "properties", "of", "undefined">>]]
  ELSE IF ~SearchDocumentsSchemaAccepts(params)
  THEN [kind |-> "return", value |-> SearchFailed(<<"query", "or", "maxResults", "invalid">>)]
  ELSE IF b.kind \in {"reject", "status", "badjson"}
  THEN [kind |-> "return", value |-> SearchFailed(makeRequestThrows(b).message)]
  ELSE IF b.kind = "malformed"
  THEN [kind |-> "return", value |-> SearchFailed(<<"invalid", "envelope">>)]
  ELSE IF b.kind = "failure"
  THEN [kind |-> "return", value |-> SearchFailed(b.message)]
  ELSE IF b.kind = "nodata"
  THEN [kind |-> "return", value |-> SearchFailed(<<"search", "response", "missing", "data">>)]
  ELSE [kind |-> "return",
        value |-> [results |-> <<"document">>, totalMatches |-> 1,
                   queryProcessed |-> params[1].query]]

\* ----------------------------------------------------------------- inputs
\* The operations handed to executeWithRetry directly, each given by what it
\* may throw (every one of them may also return a value).
Operations ==
  { { McpError("API_RATE_LIMITED", <<"rate", "limited">>, <<"medium">>, <<TRUE>>,
               <<>>, <<>>, <<>>),
      [class |-> "Error", name |-> "TypeError", message |-> <<"fetch", "failed">>] },
    { McpError("API_SERVER_ERROR", <<"busy">>, <<"high">>, <<TRUE>>, <<0>>, <<>>, <<>>),
      McpError("API_SERVER_ERROR", <<"down">>, <<"critical">>, <<TRUE>>, <<2000>>,
               <<>>, <<>>) },
    { [class |-> "Error", name |-> "Error", message |-> <<"Request", "timeout">>],
      [class |-> "Error", name |-> "Error", message |-> <<"document", "not found">>] },
    { [class |-> "ZodError", issues |-> <<"file_id:", "required">>],
      [class |-> "Error", name |-> "Error", message |-> <<"Always", "fails">>] },
    { [class |-> "Error", name |-> "Error", message |-> <<"Gateway", "Timeout">>] },
    { McpError("RESOURCE_NOT_FOUND", <<"document", "missing">>, <<>>, <<>>, <<>>,
               <<"the document does not exist">>,
               <<[kind |-> "documentId", context |-> <<>>]>>) },
    { [class |-> "string"] } }

HandlerConfigs ==
  [maxRetryAttempts : 0..MaxAttemptsBound,
   defaultRetryDelay : {0, DefaultRetryDelay}]

\* globalErrorHandler, the handler the tool calls use
globalErrorHandler == [maxRetryAttempts |-> 3, defaultRetryDelay |-> 1000]

FileIdArgs == {<<>>, <<"">>, <<"42">>}

\* arguments of a searchDocuments call; <<>> is a call without arguments
SearchArgs ==
  {<<>>} \cup { <<[query |-> q, maxResults |-> m]>> :
                  q \in {"", "contract"}, m \in {<<>>, <<-1>>, <<0>>, <<1>>, <<50>>, <<51>>} }

NoOutcome == [kind |-> "none"]
NoResult == [kind |-> "none"]

Idle == pc = "idle" \/ (pc = "finished" /\ tool = "none") \/ pc = "responded"

\* ------------------------------------------------------- executeWithRetry
\* Entry of executeWithRetry up to the first "await operation()".
EnterRetryLoop ==
  /\ attempt' = 1
  /\ lastError' = NullValue
  /\ invocations' = 0
  /\ failures' = <<>>
  /\ classified' = <<>>
  /\ delays' = <<>>
  /\ backendLog' = <<>>
  /\ IF 1 <= config.maxRetryAttempts
     THEN pc' = "operation" /\ outcome' = NoOutcome
     ELSE pc' = "finished" /\ outcome' = [kind |-> "throw", error |-> NullValue]

\* the loop test with < in place of <=
NextIterationStrict(err) ==
  /\ attempt' = attempt + 1
  /\ IF attempt + 1 < config.maxRetryAttempts
     THEN pc' = "operation" /\ UNCHANGED outcome
     ELSE pc' = "finished" /\ outcome' = [kind |-> "throw", error |-> err]

\* attempt++ and the loop test; falling out of the loop throws lastError.
NextIteration(err) ==
  /\ attempt' = attempt + 1
  /\ IF attempt + 1 <= config.maxRetryAttempts
     THEN pc' = "operation" /\ UNCHANGED outcome
     ELSE pc' = "finished" /\ outcome' = [kind |-> "throw", error |-> err]

executeWithRetry ==
  /\ Idle
  /\ calls < MaxCalls
  /\ calls' = calls + 1
  /\ server' = "none"
  /\ tool' = "none"
  /\ args' = <<>>
  /\ \E op \in Operations : operation' = op
  /\ context' = <<>>
  /\ toolResult' = NoResult
  /\ EnterRetryLoop
  /\ UNCHANGED <<config, stats, errorHistory>>

\* The catch block of executeWithRetry for a failure thrown by operation().
CatchFailure(f) ==
  LET err == handleError(f, <<[of |-> context, attempt |-> attempt,
                               maxAttempts |-> config.maxRetryAttempts]>>, config)
  IN /\ invocations' = invocations + 1
     /\ failures' = Append(failures, f)
     /\ classified' = Append(classified, err)
     /\ lastError' = err
     /\ stats' = recordError(stats, err)
     /\ errorHistory' = recordHistory(errorHistory, err)
     /\ IF ~shouldRetry(err, attempt, config)
        THEN /\ pc' = "finished"
             /\ outcome' = [kind |-> "throw", error |-> err]
             /\ UNCHANGED <<delays, attempt>>
        ELSE IF attempt < config.maxRetryAttempts
        THEN /\ pc' = "sleeping"
             /\ delays' = Append(delays, getRetryDelay(err, attempt, config))
             /\ UNCHANGED <<attempt, outcome>>
        ELSE /\ NextIteration(err)
             /\ UNCHANGED delays
     /\ UNCHANGED <<config, server, tool, args, operation, context, toolResult, calls>>

ReturnValue(v) ==
  /\ invocations' = invocations + 1
  /\ pc' = "finished"
  /\ outcome' = [kind |-> "return", value |-> v]
  /\ UNCHANGED <<config, stats, errorHistory, server, tool, args, operation, context, attempt,
                 lastError, failures, classified, delays, toolResult, calls>>

\* operation() of a direct call settles.
OperationSettles ==
  /\ pc = "operation"
  /\ tool = "none"
  /\ UNCHANGED backendLog
  /\ \/ ReturnValue(<<"value">>)
     \/ \E f \in operation : CatchFailure(f)

\* The setTimeout of the backoff fires.
BackoffElapsed ==
  /\ pc = "sleeping"
  /\ NextIteration(lastError)
  /\ UNCHANGED <<config, stats, errorHistory, server, tool, args, operation, context,
                 lastError, invocations, failures, classified, delays, backendLog,
                 toolResult, calls>>

clearStats ==
  /\ Idle
  /\ stats.totalErrors > 0
  /\ stats' = EmptyStats
  /\ errorHistory' = <<>>
  /\ UNCHANGED <<config, pc, server, tool, args, operation, context, attempt, lastError,
                 invocations, failures, classified, delays, outcome, backendLog,
                 toolResult, calls>>

\* ------------------------------------------- index.ts: the CallTool handler
\* The { content: [{ type: "text", text }], isError: true } that a catch block
\* of a handler returns; error is the McpError it was rendered from.
ErrorResult(mcpError) ==
  [kind |-> "result", isError |-> TRUE,
   text |-> IF mcpError.userMessage # <<>> THEN <<mcpError.userMessage[1]>>
            ELSE mcpError.message,
   error |-> mcpError]

\* The { content: [{ type: "text", text }] } that a handler returns otherwise.
TextResult(text) ==
  [kind |-> "result", isError |-> FALSE, text |-> text, error |-> NullValue]

\* GetDocumentFileContentSchema.parse(args) accepts the arguments
ValidFileId(fileId) == fileId # <<>> /\ fileId[1] # ""

\* No executeWithRetry has been entered in this call.
NoOperation ==
  /\ context' = <<>>
  /\ attempt' = 1
  /\ lastError' = NullValue
  /\ invocations' = 0
  /\ failures' = <<>>
  /\ classified' = <<>>
  /\ delays' = <<>>
  /\ backendLog' = <<>>
  /\ outcome' = NoOutcome

\* A catch block of a handler on an error thrown before any backend operation
\* was started: handleMcpError classifies and tallies it, the handler returns
\* the error result.
CaughtAtOnce(error) ==
  LET mcpError == handleError(error, <<>>, config)
  IN /\ stats' = recordError(stats, mcpError)
     /\ errorHistory' = recordHistory(errorHistory, mcpError)
     /\ toolResult' = ErrorResult(mcpError)
     /\ pc' = "responded"
     /\ NoOperation

CallGetDocumentFileContent ==
  /\ Idle
  /\ calls < MaxCalls
  /\ config = globalErrorHandler
  /\ calls' = calls + 1
  /\ server' = "stdio"
  /\ tool' = "get_document_file_content"
  /\ operation' = {}
  /\ \E fileId \in FileIdArgs :
       /\ args' = <<[file_id |-> fileId]>>
       /\ IF ValidFileId(fileId)
          THEN /\ context' = <<"get_document_file_content", fileId[1]>>
               /\ toolResult' = NoResult
               /\ EnterRetryLoop
               /\ UNCHANGED <<stats, errorHistory>>
          ELSE CaughtAtOnce([class |-> "ZodError", issues |-> <<"file_id:", "invalid">>])
  /\ UNCHANGED config

\* ldimsApi.getDocumentFileContent(file_id) settles for one attempt.
BackendSettles ==
  /\ pc = "operation"
  /\ server = "stdio"
  /\ tool = "get_document_file_content"
  /\ \E b \in BackendOutcomes :
       LET r == getDocumentFileContent(context[2], b)
       IN /\ backendLog' = Append(backendLog, b)
          /\ IF r.kind = "return" THEN ReturnValue(r.value) ELSE CatchFailure(r.error)

\* executeWithRetry has ended: the handler returns the content, or its inner
\* catch classifies what was thrown and returns an error result.
GetDocumentFileContentResponds ==
  /\ pc = "finished"
  /\ server = "stdio"
  /\ tool = "get_document_file_content"
  /\ pc' = "responded"
  /\ IF outcome.kind = "return"
     THEN /\ toolResult' = TextResult(outcome.value)
          /\ UNCHANGED <<stats, errorHistory>>
     ELSE LET mcpError == handleError(outcome.error, <<>>, config)
          IN /\ stats' = recordError(stats, mcpError)
             /\ errorHistory' = recordHistory(errorHistory, mcpError)
             /\ toolResult' = ErrorResult(mcpError)
  /\ UNCHANGED <<config, server, tool, args, operation, context, attempt, lastError,
                 invocations, failures, classified, delays, outcome, backendLog, calls>>

\* case "searchDocuments": validate, then run ldimsApi.searchDocuments under
\* executeWithRetry.
CallSearchDocuments ==
  /\ Idle
  /\ calls < MaxCalls
  /\ config = globalErrorHandler
  /\ calls' = calls + 1
  /\ server' = "stdio"
  /\ tool' = "searchDocuments"
  /\ operation' = {}
  /\ \E a \in SearchArgs :
       /\ args' = a
       /\ IF SearchDocumentsSchemaAccepts(a)
          THEN /\ context' = <<"searchDocuments", validatedArgs(a).query,
                               validatedArgs(a).maxResults[1]>>
               /\ toolResult' = NoResult
               /\ EnterRetryLoop
               /\ UNCHANGED <<stats, errorHistory>>
          ELSE CaughtAtOnce([class |-> "ZodError", issues |-> <<"arguments:", "invalid">>])
  /\ UNCHANGED config

\* ldimsApi.searchDocuments(validatedArgs) settles for one attempt.
SearchBackendSettles ==
  /\ pc = "operation"
  /\ server = "stdio"
  /\ tool = "searchDocuments"
  /\ \E b \in BackendOutcomes :
       LET r == searchDocuments(<<validatedArgs(args)>>, b)
       IN /\ backendLog' = Append(backendLog, b)
          /\ IF r.kind = "return" THEN ReturnValue(r.value) ELSE CatchFailure(r.error)

\* What the try/catch around executeWithRetry throws on to the outer catch:
\* an error value becomes an API_SERVER_ERROR, an McpError is thrown on as it
\* is, anything else becomes an API_CONNECTION_FAILED.  The user messages quote
\* the message of the failure.
SearchFailure(out) ==
  IF out.kind = "return"
  THEN McpError("API_SERVER_ERROR",
                <<"LDIMS", "API", "search", "failed:">> \o out.value.errorMessage,
                <<>>, <<>>, <<>>, <<"document search failed">>,
                <<[kind |-> "query", context |-> <<>>]>>)
  ELSE IF out.error.class = "McpError" THEN out.error
  ELSE McpError("API_CONNECTION_FAILED",
                <<"LDIMS", "API", "connection", "failed:", out.error.class>>,
                <<>>, <<>>, <<>>, <<"cannot connect to the LDIMS service">>,
                <<[kind |-> "query", context |-> <<>>]>>)

\* executeWithRetry has ended: the handler renders the search result, or the
\* outer catch classifies what was thrown and returns an error result.
SearchDocumentsResponds ==
  /\ pc = "finished"
  /\ server = "stdio"
  /\ tool = "searchDocuments"
  /\ pc' = "responded"
  /\ IF outcome.kind = "return" /\ ~isErrorResponse(outcome.value)
     THEN /\ toolResult' = TextResult(<<"search results">>)
          /\ UNCHANGED <<stats, errorHistory>>
     ELSE LET mcpError == handleError(SearchFailure(outcome), <<>>, config)
          IN /\ stats' = recordError(stats, mcpError)
             /\ errorHistory' = recordHistory(errorHistory, mcpError)
             /\ toolResult' = ErrorResult(mcpError)
  /\ UNCHANGED <<config, server, tool, args, operation, context, attempt, lastError,
                 invocations, failures, classified, delays, outcome, backendLog, calls>>

\* default: the tool name is not one of the two tools.
CallUnknownTool ==
  /\ Idle
  /\ calls < MaxCalls
  /\ config = globalErrorHandler
  /\ calls' = calls + 1
  /\ server' = "stdio"
  /\ tool' = "unknown_tool"
  /\ args' = <<>>
  /\ operation' = {}
  /\ CaughtAtOnce(McpError("TOOL_NOT_FOUND", <<"unknown", "tool:", "unknown_tool">>,
                           <<>>, <<>>, <<>>, <<"the tool does not exist">>,
                           <<[kind |-> "requestedTool", context |-> <<>>]>>))
  /\ UNCHANGED config

\* ------------------------------------- http/server.ts: the CallTool handler
\* The handler calls the service without validating the arguments and without
\* executeWithRetry.  Reading args.file_id of absent arguments throws a
\* TypeError.
GetArguments == {<<>>} \cup {<<[file_id |-> f]>> : f \in FileIdArgs}

\* `${fileId}` in the URL of the request
FileIdText(fileId) == IF fileId = <<>> THEN "undefined" ELSE fileId[1]

\* The handler returns without having awaited the backend.
ReturnsAtOnce(result) ==
  /\ toolResult' = result
  /\ pc' = "responded"
  /\ NoOperation
  /\ UNCHANGED <<stats, errorHistory>>

\* The handler awaits the service, which has sent its request to the backend.
HttpAwaitBackend ==
  /\ toolResult' = NoResult
  /\ pc' = "operation"
  /\ NoOperation
  /\ UNCHANGED <<stats, errorHistory>>

HttpCallTool ==
  /\ Idle
  /\ calls < MaxCalls
  /\ config = globalErrorHandler
  /\ calls' = calls + 1
  /\ server' = "http"
  /\ operation' = {}
  /\ \/ /\ tool' = "searchDocuments"
        /\ \E a \in SearchArgs :
             /\ args' = a
             /\ IF SearchIssuesRequest(a)
                THEN HttpAwaitBackend
                ELSE LET r == searchDocuments(a, [kind |-> "ok"])
                     IN IF r.kind = "throw"
                        THEN CaughtAtOnce(r.error)
                        ELSE ReturnsAtOnce(TextResult(<<"JSON", r.value>>))
     \/ /\ tool' = "get_document_file_content"
        /\ \E a \in GetArguments :
             /\ args' = a
             /\ IF a = <<>>
                THEN CaughtAtOnce([class |-> "Error", name |-> "TypeError",
                                   message |-> <<"Cannot", "read", "properties", "of",
                                                 "undefined">>])
                ELSE HttpAwaitBackend
     \/ /\ tool' = "unknown_tool"
        /\ args' = <<>>
        /\ CaughtAtOnce([class |-> "Error", name |-> "Error",
                         message |-> <<"Tool", "unknown_tool", "not found">>])
  /\ UNCHANGED config

\* The awaited service call settles: the handler returns its value as JSON
\* text, or its catch classifies what was thrown and returns an error result.
HttpBackendSettles ==
  /\ pc = "operation"
  /\ server = "http"
  /\ pc' = "responded"
  /\ \E b \in BackendOutcomes :
       LET r == IF tool = "searchDocuments" THEN searchDocuments(args, b)
                ELSE getDocumentFileContent(FileIdText(args[1].file_id), b)
       IN /\ backendLog' = Append(backendLog, b)
          /\ IF r.kind = "return"
             THEN /\ toolResult' = TextResult(<<"JSON", r.value>>)
                  /\ UNCHANGED <<stats, errorHistory>>
             ELSE LET mcpError == handleError(r.error, <<>>, config)
                  IN /\ stats' = recordError(stats, mcpError)
                     /\ errorHistory' = recordHistory(errorHistory, mcpError)
                     /\ toolResult' = ErrorResult(mcpError)
  /\ UNCHANGED <<config, server, tool, args, operation, context, attempt, lastError,
                 invocations, failures, classified, delays, outcome, calls>>

\* ------------------------------------------- http/server.ts: session router
\* Session ids a client may put in a request; randomUUID yields 1, 2, ...
ClientIds == 0..1

\* How a request carries its session id: path parameter and header.
Carriages ==
  { [path |-> <<>>, header |-> <<>>] }
    \cup { [path |-> <<s>>, header |-> <<>>] : s \in ClientIds }
    \cup { [path |-> <<>>, header |-> <<s>>] : s \in ClientIds }
    \cup { [path |-> <<1>>, header |-> <<0>>] }

RequestKinds ==
  { [httpMethod |-> "POST", bodyMethod |-> "initialize"],
    [httpMethod |-> "POST", bodyMethod |-> "tools/call"],
    [httpMethod |-> "GET", bodyMethod |-> "initialize"] }

\* the header taking precedence over the path parameter
sessionIdOfHeaderFirst(path, header) == IF header # <<>> THEN header ELSE path

\* the path parameter ignored
sessionIdOfHeaderOnly(path, header) == header

\* const sessionId = req.params.sessionId || headerSessionId
sessionIdOf(path, header) == IF path # <<>> THEN path ELSE header

isInitialize(httpMethod, bodyMethod) ==
  httpMethod = "POST" /\ bodyMethod = "initialize"

\* a generator that returns the same id every time
sessionIdGeneratorConstant(issued) == 1

\* sessionIdGenerator: randomUUID, a value no earlier call has returned;
\* issued is the number of ids generated so far.
sessionIdGenerator(issued) == issued + 1

Issued == Cardinality({t \in 1..Len(created) : created[t].sessionId # <<>>})

Rejection(status, code) == <<[status |-> status, code |-> code]>>

Without(seq, r) == [i \in 1..(Len(seq) - 1) |-> IF i < r THEN seq[i] ELSE seq[i + 1]]

\* handleMcpRequest up to its first await: resolve the session id, then either
\* build and connect a transport (initialize), reject, or look the transport up.
handleMcpRequest ==
  /\ received < MaxRequests
  /\ Len(requests) < MaxInFlight
  /\ received' = received + 1
  /\ \E k \in RequestKinds, c \in Carriages :
       LET sessionId == sessionIdOf(c.path, c.header)
           req == [seq |-> received + 1,
                   httpMethod |-> k.httpMethod, bodyMethod |-> k.bodyMethod,
                   path |-> c.path, header |-> c.header, sessionId |-> sessionId,
                   transport |-> <<>>, response |-> <<>>, answeredVia |-> <<>>]
       IN IF isInitialize(k.httpMethod, k.bodyMethod)
          THEN /\ created' = Append(created, [sessionId |-> <<>>, listener |-> FALSE,
                                              closed |-> FALSE])
               /\ mcpTransport' = <<Len(created) + 1>>
               /\ requests' = Append(requests,
                                     [req EXCEPT !.transport = <<Len(created) + 1>>])
               /\ UNCHANGED answered
          ELSE /\ UNCHANGED <<created, mcpTransport>>
               /\ IF sessionId = <<>>
                  THEN /\ answered' =
                            <<[req EXCEPT !.response = Rejection(400, "MISSING_SESSION_ID")]>>
                       /\ UNCHANGED requests
                  ELSE IF sessionId[1] \notin DOMAIN transports
                  THEN /\ answered' =
                            <<[req EXCEPT !.response = Rejection(404, "UNKNOWN_SESSION")]>>
                       /\ UNCHANGED requests
                  ELSE /\ requests' = Append(requests,
                            [req EXCEPT !.transport = <<transports[sessionId[1]]>>])
                       /\ UNCHANGED answered
  /\ UNCHANGED <<transports, seenIds, transportHasOn>>

\* transport.handleRequest of a new transport on the initialize request: the
\* transport generates its session id and calls onsessioninitialized, which
\* stores the mapping and registers the disconnect listener; the connected
\* server answers through the transport it holds.
TransportInitializes(r) ==
  /\ isInitialize(requests[r].httpMethod, requests[r].bodyMethod)
  /\ LET t == requests[r].transport[1]
         sid == sessionIdGenerator(Issued)
     IN /\ transports' = [s \in DOMAIN transports \cup {sid} |->
                            IF s = sid THEN t ELSE transports[s]]
        /\ seenIds' = seenIds \cup {sid}
        /\ created' = [created EXCEPT ![t] = [sessionId |-> <<sid>>,
                                              listener |-> transportHasOn,
                                              closed |-> FALSE]]
        /\ answered' = <<[requests[r] EXCEPT !.response = Rejection(200, "OK"),
                                             !.answeredVia = mcpTransport]>>
        /\ requests' = Without(requests, r)
  /\ UNCHANGED <<mcpTransport, received, transportHasOn>>

\* transport.handleRequest of the transport found in the table: the message
\* goes to the connected server, which answers through the transport it holds.
TransportHandles(r) ==
  /\ ~isInitialize(requests[r].httpMethod, requests[r].bodyMethod)
  /\ answered' = <<[requests[r] EXCEPT !.response = Rejection(200, "OK"),
                                       !.answeredVia = mcpTransport]>>
  /\ requests' = Without(requests, r)
  /\ UNCHANGED <<transports, created, mcpTransport, received, seenIds, transportHasOn>>

\* TransportThrows with a catch block that also forgets the session of the request
TransportThrowsDropsSession(r) ==
  /\ answered' = <<[requests[r] EXCEPT
                      !.response = Rejection(500, "REQUEST_HANDLING_FAILED")]>>
  /\ requests' = Without(requests, r)
  /\ transports' = [s \in {k \in DOMAIN transports :
                             transports[k] # requests[r].transport[1]} |-> transports[s]]
  /\ UNCHANGED <<created, mcpTransport, received, seenIds, transportHasOn>>

\* transport.handleRequest throws: the catch block answers 500.
TransportThrows(r) ==
  /\ answered' = <<[requests[r] EXCEPT
                      !.response = Rejection(500, "REQUEST_HANDLING_FAILED")]>>
  /\ requests' = Without(requests, r)
  /\ UNCHANGED <<transports, created, mcpTransport, received, seenIds, transportHasOn>>

\* The connection of transport t goes away; the "disconnect" listener, when one
\* was registered, deletes the mapping of its session id.
Disconnect(t) ==
  /\ created[t].sessionId # <<>>
  /\ ~created[t].closed
  /\ created' = [created EXCEPT ![t].closed = TRUE]
  /\ IF created[t].listener
     THEN transports' = [s \in DOMAIN transports \ {created[t].sessionId[1]} |->
                           transports[s]]
     ELSE UNCHANGED transports
  /\ UNCHANGED <<mcpTransport, requests, answered, received, seenIds, transportHasOn>>

\* ------------------------------------- error-handler.ts: calls from outside
NoRecent == [kind |-> "none"]

\* The failure handed to the k-th handleMcpError call; its message carries k.
Thrown(k) ==
  CASE k % 5 = 1 -> [class |-> "Error", name |-> "TypeError",
                     message |-> <<"fetch", "failed", ToString(k)>>]
    [] k % 5 = 2 -> [class |-> "Error", name |-> "Error",
                     message |-> <<"Request", "timeout", ToString(k)>>]
    [] k % 5 = 3 -> McpError("API_RATE_LIMITED", <<"rate", "limited", ToString(k)>>,
                             <<"medium">>, <<TRUE>>, <<>>, <<>>, <<>>)
    [] k % 5 = 4 -> [class |-> "ZodError", issues |-> <<"file_id:", ToString(k)>>]
    [] OTHER -> [class |-> "Error", name |-> "Error",
                 message |-> <<"Always", "fails", ToString(k)>>]

callVars == <<config, pc, server, tool, args, operation, context, attempt, lastError,
              invocations, failures, classified, delays, outcome, backendLog,
              toolResult, calls>>

\* handleMcpError(error): globalErrorHandler.handleError without a context.
handleMcpError ==
  /\ handledTotal < MaxClassifications
  /\ handledTotal' = handledTotal + 1
  /\ LET mcpError == handleError(Thrown(handledTotal + 1), <<>>, config)
     IN /\ stats' = recordError(stats, mcpError)
        /\ errorHistory' = recordHistory(errorHistory, mcpError)
        /\ handled' = Append(handled, mcpError)
  /\ recent' = NoRecent
  /\ UNCHANGED callVars

\* Array.prototype.slice(start) of JavaScript: a negative start counts from the
\* end, and -0 is 0.
slice(array, start) ==
  LET from == IF start < 0 THEN (IF Len(array) + start < 0 THEN 0 ELSE Len(array) + start)
              ELSE (IF start > Len(array) THEN Len(array) ELSE start)
  IN SubSeq(array, from + 1, Len(array))

\* return this.errorHistory.slice(-limit)
getRecentErrors(history, limit) == slice(history, 0 - limit)

Limits == {0, 1, 10, maxHistorySize + 1}

CallGetRecentErrors ==
  /\ \E limit \in Limits :
       recent' = [kind |-> "result", limit |-> limit,
                  result |-> getRecentErrors(errorHistory, limit)]
  /\ recent = NoRecent
  /\ UNCHANGED <<retryVars, handled, handledTotal>>

\* ------------------------------------------------ startup of the stdio servers
Envs ==
  [LDIMS_API_BASE_URL : {<<>>, <<"not-a-url">>, <<"http://localhost:3000">>},
   LDIMS_API_TIMEOUT : {<<>>, <<-1>>, <<0>>, <<30000>>},
   LDIMS_API_RETRY_COUNT : {<<>>, <<-1>>, <<0>>, <<3>>}]

\* new URL(text) does not throw
ParsesAsUrl(text) == text = "http://localhost:3000"

\* EnvironmentConfigSchema.parse(process.env) accepts the environment; an absent
\* variable takes its default.
EnvironmentConfigSchemaAccepts(e) ==
  /\ e.LDIMS_API_BASE_URL # <<>> => ParsesAsUrl(e.LDIMS_API_BASE_URL[1])
  /\ e.LDIMS_API_TIMEOUT # <<>> => e.LDIMS_API_TIMEOUT[1] > 0
  /\ e.LDIMS_API_RETRY_COUNT # <<>> => e.LDIMS_API_RETRY_COUNT[1] >= 0

\* ConfigManager.loadConfig: the environment is parsed, the configuration is
\* built and validateConfig tests it once more; a failure is thrown as a
\* ConfigError.
loadConfig(e) ==
  LET built == [baseUrl |-> IF e.LDIMS_API_BASE_URL = <<>> THEN "http://localhost:3000"
                            ELSE e.LDIMS_API_BASE_URL[1],
                timeout |-> IF e.LDIMS_API_TIMEOUT = <<>> THEN 30000
                            ELSE e.LDIMS_API_TIMEOUT[1],
                retryCount |-> IF e.LDIMS_API_RETRY_COUNT = <<>> THEN 3
                               ELSE e.LDIMS_API_RETRY_COUNT[1]]
  IN IF /\ EnvironmentConfigSchemaAccepts(e)
        /\ ParsesAsUrl(built.baseUrl)
        /\ built.timeout > 0
        /\ built.retryCount >= 0
     THEN [kind |-> "return", config |-> built]
     ELSE [kind |-> "throw", error |-> [class |-> "Error", name |-> "ConfigError"]]

\* initializeServer of index.ts: a failure to load the configuration is caught
\* and logged, and the function returns without an LdimsApiService.
initializeServer ==
  /\ entry = "index"
  /\ startup = "starting"
  /\ startup' = "initialized"
  /\ ldimsApi' = (loadConfig(env).kind = "return")
  /\ UNCHANGED <<entry, env, health>>

\* main of src/index.ts up to the health probe: initializeServer throws what
\* loadConfig throws, and the catch of main exits the process.
main ==
  /\ entry = "main"
  /\ startup = "starting"
  /\ IF loadConfig(env).kind = "throw"
     THEN startup' = "exited" /\ UNCHANGED ldimsApi
     ELSE startup' = "initialized" /\ ldimsApi' = TRUE
  /\ UNCHANGED <<entry, env, health>>

\* startServer of index.ts after initializeServer has returned:
\* await server.connect(transport), and the handlers serve requests.
startServer ==
  /\ entry = "index"
  /\ startup = "initialized"
  /\ startup' = "serving"
  /\ UNCHANGED <<entry, env, ldimsApi, health>>

\* The rest of main: ldimsApi.checkHealth(), which never throws and whose
\* result is only logged, then await server.connect(transport).
mainConnects ==
  /\ entry = "main"
  /\ startup = "initialized"
  /\ startup' = "serving"
  /\ UNCHANGED <<entry, env, ldimsApi, health>>

\* ------------------------------------------- http/server.ts: handleHealthCheck
NoHealth == [kind |-> "none"]

\* The probe is searchDocuments({ query: "test", maxResults: 1 }); the service
\* is reported healthy unless the call throws.  probe is what the backend did.
handleHealthCheck ==
  /\ entry = "http"
  /\ startup = "serving"
  /\ \E b \in BackendOutcomes :
       LET r == searchDocuments(<<[query |-> "test", maxResults |-> <<1>>]>>, b)
       IN health' = [kind |-> "response", status |-> "healthy",
                     services |-> [mcp |-> TRUE, ldims_api |-> (r.kind = "return")],
                     probe |-> b]
  /\ UNCHANGED <<entry, env, startup, ldimsApi>>

RouterInit ==
  /\ transports = <<>>
  /\ created = <<>>
  /\ mcpTransport = <<>>
  /\ requests = <<>>
  /\ answered = <<>>
  /\ received = 0
  /\ seenIds = {}
  /\ transportHasOn \in BOOLEAN

RetryInit ==
  /\ config \in HandlerConfigs
  /\ stats = EmptyStats
  /\ errorHistory = <<>>
  /\ pc = "idle"
  /\ server = "none"
  /\ tool = "none"
  /\ args = <<>>
  /\ operation = {}
  /\ context = <<>>
  /\ attempt = 1
  /\ lastError = NullValue
  /\ invocations = 0
  /\ failures = <<>>
  /\ classified = <<>>
  /\ delays = <<>>
  /\ outcome = NoOutcome
  /\ backendLog = <<>>
  /\ toolResult = NoResult
  /\ calls = 0

\* No handleMcpError or getRecentErrors call has been made from outside.
HandlerAtRest ==
  /\ handled = <<>>
  /\ handledTotal = 0
  /\ recent = NoRecent

\* The stdio server has started with the default configuration and serves.
ServerAtRest ==
  /\ entry = "index"
  /\ env = [LDIMS_API_BASE_URL |-> <<>>, LDIMS_API_TIMEOUT |-> <<>>,
            LDIMS_API_RETRY_COUNT |-> <<>>]
  /\ startup = "serving"
  /\ ldimsApi = TRUE
  /\ health = NoHealth

vars == <<retryVars, routerVars, handlerVars, serverVars>>

\* The error handler and the tool calls; no HTTP request arrives.
Init ==
  /\ RetryInit
  /\ RouterInit
  /\ transportHasOn = FALSE
  /\ HandlerAtRest
  /\ ServerAtRest

Next ==
  \/ executeWithRetry /\ UNCHANGED <<routerVars, handlerVars, serverVars>>
  \/ OperationSettles /\ UNCHANGED <<routerVars, handlerVars, serverVars>>
  \/ BackoffElapsed /\ UNCHANGED <<routerVars, handlerVars, serverVars>>
  \/ clearStats /\ UNCHANGED <<routerVars, handlerVars, serverVars>>
  \/ CallGetDocumentFileContent /\ UNCHANGED <<routerVars, handlerVars, serverVars>>
  \/ BackendSettles /\ UNCHANGED <<routerVars, handlerVars, serverVars>>
  \/ GetDocumentFileContentResponds /\ UNCHANGED <<routerVars, handlerVars, serverVars>>
  \/ CallSearchDocuments /\ UNCHANGED <<routerVars, handlerVars, serverVars>>
  \/ SearchBackendSettles /\ UNCHANGED <<routerVars, handlerVars, serverVars>>
  \/ SearchDocumentsResponds /\ UNCHANGED <<routerVars, handlerVars, serverVars>>
  \/ CallUnknownTool /\ UNCHANGED <<routerVars, handlerVars, serverVars>>
  \/ HttpCallTool /\ UNCHANGED <<routerVars, handlerVars, serverVars>>
  \/ HttpBackendSettles /\ UNCHANGED <<routerVars, handlerVars, serverVars>>

Spec == Init /\ [][Next]_vars

\* The session router of the HTTP server; the error handler is at rest.
RouterSpecInit ==
  /\ RetryInit
  /\ config = globalErrorHandler
  /\ RouterInit
  /\ HandlerAtRest
  /\ ServerAtRest

RouterNext ==
  \/ handleMcpRequest /\ UNCHANGED <<retryVars, handlerVars, serverVars>>
  \/ \E r \in 1..Len(requests) : TransportInitializes(r) /\ UNCHANGED <<retryVars, handlerVars, serverVars>>
  \/ \E r \in 1..Len(requests) : TransportHandles(r) /\ UNCHANGED <<retryVars, handlerVars, serverVars>>
  \/ \E r \in 1..Len(requests) : TransportThrows(r) /\ UNCHANGED <<retryVars, handlerVars, serverVars>>
  \/ \E t \in 1..Len(created) : Disconnect(t) /\ UNCHANGED <<retryVars, handlerVars, serverVars>>

RouterSpec == RouterSpecInit /\ [][RouterNext]_vars


\* The error handler called from outside: handleMcpError, clearStats and
\* getRecentErrors in any order.
HandlerSpecInit ==
  /\ RetryInit
  /\ config = globalErrorHandler
  /\ RouterInit
  /\ transportHasOn = FALSE
  /\ HandlerAtRest
  /\ ServerAtRest

HandlerNext ==
  \/ handleMcpError /\ UNCHANGED <<routerVars, serverVars>>
  \/ clearStats /\ handled' = <<>> /\ recent' = NoRecent
       /\ UNCHANGED <<handledTotal, routerVars, serverVars>>
  \/ CallGetRecentErrors /\ UNCHANGED <<routerVars, serverVars>>

HandlerSpec == HandlerSpecInit /\ [][HandlerNext]_vars

\* The startup of the two stdio programs on any environment, and the health
\* endpoint of the running HTTP server.
ServerSpecInit ==
  /\ RetryInit
  /\ config = globalErrorHandler
  /\ RouterInit
  /\ transportHasOn = FALSE
  /\ HandlerAtRest
  /\ entry \in {"index", "main", "http"}
  /\ env \in Envs
  /\ startup = IF entry = "http" THEN "serving" ELSE "starting"
  /\ ldimsApi = (entry = "http")
  /\ health = NoHealth

ServerNext ==
  \/ initializeServer /\ UNCHANGED <<retryVars, routerVars, handlerVars>>
  \/ main /\ UNCHANGED <<retryVars, routerVars, handlerVars>>
  \/ startServer /\ UNCHANGED <<retryVars, routerVars, handlerVars>>
  \/ mainConnects /\ UNCHANGED <<retryVars, routerVars, handlerVars>>
  \/ handleHealthCheck /\ UNCHANGED <<retryVars, routerVars, handlerVars>>

ServerSpec == ServerSpecInit /\ [][ServerNext]_vars


\* ======================================================== properties: retry
Ended == outcome.kind # "none"

RetryContext(k) ==
  <<[of |-> context, attempt |-> k, maxAttempts |-> config.maxRetryAttempts]>>

Retryable(error) == error.recoverable /\ error.severity # "critical"

C2_CriticalNeverRetried ==
  \A i \in 1..Len(classified) :
    classified[i].severity = "critical"
      => /\ i = Len(classified)
         /\ invocations = i
         /\ outcome.kind = "throw"
         /\ outcome.error = classified[i]

C2_Witness ==
  /\ config.maxRetryAttempts = 3
  /\ invocations = 1
  /\ Len(classified) = 1
  /\ classified[1].severity = "critical"
  /\ classified[1].recoverable
  /\ outcome.kind = "throw"

\* C3: the k-th wait of a call is base * 2^(k-1), base being the retryAfter of
\* the k-th classified error when it has one and defaultRetryDelay otherwise;
\* a wait follows every failed attempt but the final one.
C3_BackoffDelays ==
  /\ \A k \in 1..Len(delays) :
       delays[k] = (IF classified[k].retryAfter # <<>>
                    THEN classified[k].retryAfter[1]
                    ELSE config.defaultRetryDelay) * 2^(k - 1)
  /\ Len(delays) = IF pc = "sleeping" THEN invocations
                   ELSE IF pc = "operation" THEN invocations
                   ELSE IF invocations = 0 THEN 0 ELSE invocations - 1

C3_Witness ==
  /\ Ended
  /\ outcome.kind = "throw"
  /\ invocations = 3
  /\ Len(delays) = 2
  /\ classified[1].retryAfter = <<>>
  /\ classified[2].retryAfter # <<>>
  /\ delays[1] = 1000
  /\ delays[2] = 10000

\* C4: executeWithRetry ends by returning the value of a successful invocation
\* or by throwing an McpError made by the classifier, for every configuration.
C4_OnlyValueOrMcpError ==
  Ended =>
    \/ outcome.kind = "return" /\ invocations = Len(failures) + 1
    \/ outcome.kind = "throw" /\ outcome.error.class = "McpError"

Responded == pc = "responded"

Unreachable(b) == b = ConnectionRefused \/ b = Aborted

\* C11: when every backend request of a tool call made through the retry
\* executor (get_document_file_content, searchDocuments) ends in a refused
\* connection or a timeout, the request is made maxAttempts times, with a wait
\* between two attempts, before the error is surfaced.
C11_ConnectivityRetried ==
  ( /\ Responded
    /\ server = "stdio"
    /\ tool \in {"get_document_file_content", "searchDocuments"}
    /\ backendLog # <<>>
    /\ \A i \in 1..Len(backendLog) : Unreachable(backendLog[i]) )
  => /\ Len(backendLog) = config.maxRetryAttempts
     /\ Len(delays) = config.maxRetryAttempts - 1
     /\ toolResult.isError

\* C12: an operation that failed with a schema violation (ZodError) is not
\* invoked again and no wait is started after that failure.
C12_ValidationNeverRetried ==
  \A i \in 1..Len(failures) :
    failures[i].class = "ZodError"
      => /\ i = Len(failures)
         /\ Len(delays) < i
         /\ pc \notin {"sleeping", "operation"}

Earlier(message) ==
  includes(message, "fetch") \/ includes(message, "network") \/ includes(message, "timeout")

AuthOrNotFoundStatus(b) == b.kind = "status" /\ b.status \in {401, 403, 404}

\* C13 as stated: under the retry executor, an attempt that ends in HTTP 401,
\* 403 or 404, or in a failure whose message contains "not found", is the last
\* attempt of the call, and the call ends with an error.
C13_AuthNotFoundNeverRetried ==
  /\ (server = "stdio" /\ pc # "idle") =>
       \A i \in 1..Len(backendLog) :
         ( \/ AuthOrNotFoundStatus(backendLog[i])
           \/ backendLog[i].kind = "failure" /\ includes(backendLog[i].message, "not found") )
           => /\ i = Len(backendLog)
              /\ pc \in {"finished", "responded"}
              /\ Responded => toolResult.isError
  /\ server = "none" =>
       \A i \in 1..Len(failures) :
         (failures[i].class = "Error" /\ includes(failures[i].message, "not found"))
           => /\ i = Len(failures)
              /\ invocations = i
              /\ outcome.kind = "throw"

\* C13 amended: under the retry executor, an attempt that ends in HTTP 401, 403
\* or 404, or in a failure whose message contains "not found" and none of
\* "fetch", "network", "timeout", is the last attempt of the call, and the call
\* ends with an error.
C13_NotFoundUnlessMatchedEarlier ==
  /\ (server = "stdio" /\ pc # "idle") =>
       \A i \in 1..Len(backendLog) :
         ( \/ AuthOrNotFoundStatus(backendLog[i])
           \/ /\ backendLog[i].kind = "failure"
              /\ includes(backendLog[i].message, "not found")
              /\ ~Earlier(backendLog[i].message) )
           => /\ i = Len(backendLog)
              /\ pc \in {"finished", "responded"}
              /\ Responded => toolResult.isError
  /\ server = "none" =>
       \A i \in 1..Len(failures) :
         ( /\ failures[i].class = "Error"
           /\ includes(failures[i].message, "not found")
           /\ ~Earlier(failures[i].message) )
           => /\ i = Len(failures)
              /\ invocations = i
              /\ outcome.kind = "throw"

C13_Witness ==
  /\ Responded
  /\ server = "stdio"
  /\ tool = "get_document_file_content"
  /\ Len(backendLog) = 2
  /\ backendLog[1] = ConnectionRefused
  /\ backendLog[2].kind = "failure"
  /\ backendLog[2].message = <<"file", "not found">>
  /\ invocations = 2
  /\ toolResult.isError
  /\ toolResult.error.code = "RESOURCE_NOT_FOUND"

\* The arguments the claim speaks of: an empty query, or maxResults outside 1..50.
InvalidSearch(a) ==
  /\ a # <<>>
  /\ \/ a[1].query = ""
     \/ a[1].maxResults # <<>> /\ (a[1].maxResults[1] < 1 \/ a[1].maxResults[1] > 50)

C15_FileIdRequired ==
  ( /\ tool = "get_document_file_content"
    /\ (args = <<>> \/ args[1].file_id = <<>> \/ args[1].file_id = <<"">>) )
  => /\ Responded
     /\ backendLog = <<>>
     /\ toolResult.isError

\* C16: searchDocuments with the arguments of the call throws on no backend
\* outcome, returns an error value tagged SEARCH_FAILED on every outcome but
\* success, and returns a result only on success.
C16_SearchNeverThrows ==
  (tool = "searchDocuments" /\ server = "http" /\ Responded)
    => \A b \in BackendOutcomes :
         LET r == searchDocuments(args, b)
         IN /\ r.kind = "return"
            /\ b.kind # "ok" => /\ isErrorResponse(r.value)
                                /\ r.value.errorCode = "SEARCH_FAILED"
            /\ ~isErrorResponse(r.value) => b.kind = "ok"

\* C17: a tool call whose last backend request was aborted by its timeout
\* ends with an error of kind API_TIMEOUT.
C17_TimeoutSurfaced ==
  ( /\ Responded
    /\ tool \in {"get_document_file_content", "searchDocuments"}
    /\ backendLog # <<>>
    /\ backendLog[Len(backendLog)] = Aborted )
  => /\ toolResult.isError
     /\ toolResult.error.code = "API_TIMEOUT"

\* The object the CallTool handlers return.
Returned(result) ==
  IF result.isError THEN [content |-> result.text, isError |-> TRUE]
  ELSE [content |-> result.text]

CallFailed ==
  \/ tool = "unknown_tool"
  \/ tool = "searchDocuments" /\ (args = <<>> \/ InvalidSearch(args))
  \/ tool = "get_document_file_content" /\ args = <<>>
  \/ backendLog # <<>> /\ backendLog[Len(backendLog)].kind # "ok"

\* C18: a tool call that failed (unknown tool, invalid arguments, or a last
\* backend request that did not succeed) returns an object with isError true
\* that carries the error code and the error message.
C18_StructuredErrorResult ==
  (Responded /\ tool # "none" /\ CallFailed)
    => /\ "isError" \in DOMAIN Returned(toolResult)
       /\ Returned(toolResult).isError
       /\ "errorCode" \in DOMAIN Returned(toolResult)
       /\ "errorMessage" \in DOMAIN Returned(toolResult)

\* C19: every McpError returned by handleError has a code and a userMessage,
\* and the userMessage differs from the message.
C19_UserMessagePresent ==
  \A i \in 1..Len(classified) :
    /\ classified[i].code \in Codes
    /\ classified[i].userMessage # <<>>
    /\ classified[i].userMessage # classified[i].message

\* String.prototype.toLowerCase on the words used in messages.
toLowerCase(word) ==
  CASE word = "Timeout" -> "timeout"
    [] word = "Network" -> "network"
    [] word = "Not Found" -> "not found"
    [] word = "Request" -> "request"
    [] word = "Gateway" -> "gateway"
    [] OTHER -> word

\* C20: a failure that is an Error whose message contains "timeout" in any
\* letter case is classified API_TIMEOUT, medium, recoverable.
C20_TimeoutAnyCase ==
  \A i \in 1..Len(failures) :
    ( /\ failures[i].class = "Error"
      /\ \E j \in 1..Len(failures[i].message) :
           toLowerCase(failures[i].message[j]) = "timeout" )
    => /\ classified[i].code = "API_TIMEOUT"
       /\ classified[i].severity = "medium"
       /\ classified[i].recoverable


\* C21: classifying a failure that is already an McpError, with or without a
\* context, gives back the same error with every field, details included,
\* unchanged.
C21_ClassifiedErrorUnchanged ==
  \A i \in 1..Len(failures) :
    failures[i].class = "McpError" => classified[i] = failures[i]

\* The message with every word in lower case.
lowered(message) == [j \in DOMAIN message |-> toLowerCase(message[j])]

\* The rule that matches a message when letter case is ignored.
RuleIgnoringCase(message) ==
  IF includes(lowered(message), "fetch") \/ includes(lowered(message), "network")
  THEN "connection"
  ELSE IF includes(lowered(message), "timeout") THEN "timeout"
  ELSE IF includes(lowered(message), "not found") THEN "not found"
  ELSE "other"

\* C23: a failure that is a plain Error is classified by the first rule that
\* matches its message, letter case ignored: fetch or network gives
\* API_CONNECTION_FAILED (high, recoverable, retry after 5000 ms), timeout gives
\* API_TIMEOUT (medium, recoverable, retry after the base delay), not found
\* gives RESOURCE_NOT_FOUND (medium, not recoverable), anything else gives
\* INTERNAL_ERROR (critical, not recoverable).
C23_GenericErrorRules ==
  \A i \in 1..Len(failures) :
    failures[i].class = "Error" =>
      LET rule == RuleIgnoringCase(failures[i].message)
          e == classified[i]
      IN /\ rule = "connection" =>
              /\ e.code = "API_CONNECTION_FAILED" /\ e.severity = "high"
              /\ e.recoverable /\ e.retryAfter = <<ConnectionRetryAfter>>
         /\ rule = "timeout" =>
              /\ e.code = "API_TIMEOUT" /\ e.severity = "medium"
              /\ e.recoverable /\ e.retryAfter = <<config.defaultRetryDelay>>
         /\ rule = "not found" =>
              /\ e.code = "RESOURCE_NOT_FOUND" /\ e.severity = "medium"
              /\ ~e.recoverable
         /\ rule = "other" =>
              /\ e.code = "INTERNAL_ERROR" /\ e.severity = "critical"
              /\ ~e.recoverable

\* C26: when the operation failed with plain Errors at its first k invocations,
\* k < maxAttempts, whatever their messages, executeWithRetry does not end
\* before invocation k + 1, and ends by returning its value after exactly
\* k + 1 invocations.
C26_SucceedsAfterOrdinaryFailures ==
  ( /\ Ended
    /\ Len(failures) < config.maxRetryAttempts
    /\ \A i \in 1..Len(failures) : failures[i].class = "Error" )
  => /\ outcome.kind = "return"
     /\ invocations = Len(failures) + 1

\* The failed invocations of the operation that a step adds to the call.
FailedAttemptsAdded ==
  IF calls' # calls THEN Len(failures') ELSE Len(failures') - Len(failures)

\* C28: every failed invocation of the operation is tallied exactly once:
\* at each step of a tool call totalErrors and the history grow by the number
\* of failed invocations the step adds, so that at the end of the call they
\* have grown by the number of failed invocations of the call.
C28_EachFailureTalliedOnce ==
  [][ (tool' # "none" /\ ~(Idle /\ calls' = calls))
      => /\ stats'.totalErrors - stats.totalErrors = FailedAttemptsAdded
         /\ Len(errorHistory') - Len(errorHistory) = FailedAttemptsAdded ]_vars


\* ======================================================= properties: router
\* The request that the step receives, as handleMcpRequest leaves it.
Arrives == received' = received + 1
NewRequest ==
  IF Len(requests') > Len(requests) THEN requests'[Len(requests')] ELSE answered'[1]

\* The session id a request carries: the path segment, else the header.
Carried(req) == IF req.path # <<>> THEN req.path ELSE req.header

IsInit(req) == req.httpMethod = "POST" /\ req.bodyMethod = "initialize"

\* The transports that were given session id s when they were initialized.
CreatedFor(s) == {t \in 1..Len(created) : created[t].sessionId = <<s>>}

\* C5: a session id produced by an initialize request was never a key of the
\* routing table before, no step changes the transport of an existing key, and
\* no two transports have the same session id.
C5_FreshSessionIds ==
  [][ /\ \A s \in DOMAIN transports' :
           IF s \in DOMAIN transports THEN transports'[s] = transports[s]
           ELSE s \notin seenIds
      /\ \A t, u \in 1..Len(created') :
           (created'[t].sessionId # <<>> /\ created'[t].sessionId = created'[u].sessionId)
             => t = u ]_vars

C5_Witness ==
  /\ answered # <<>>
  /\ IsInit(answered[1])
  /\ Carried(answered[1]) = <<>>
  /\ answered[1].response[1].status = 200
  /\ created[answered[1].transport[1]].sessionId = <<2>>
  /\ 1 \in DOMAIN transports
  /\ 2 \in DOMAIN transports
  /\ \E r \in 1..Len(requests) :
       IsInit(requests[r]) /\ requests[r].seq < answered[1].seq

\* C6 as stated: every request that carries a session id produced earlier is
\* handed to the transport created for that id.
C6_EveryRequestSameTransport ==
  [][ Arrives =>
        \A s \in seenIds :
          Carried(NewRequest) = <<s>>
            => /\ NewRequest.transport # <<>>
               /\ CreatedFor(s) = {NewRequest.transport[1]} ]_vars

\* C6 amended: every non-initialize request that carries a session id which is
\* in the routing table is handed to the one transport created for that id.
C6_RoutedToSameTransport ==
  [][ Arrives =>
        \A s \in DOMAIN transports :
          (Carried(NewRequest) = <<s>> /\ ~IsInit(NewRequest))
            => /\ NewRequest.transport # <<>>
               /\ CreatedFor(s) = {NewRequest.transport[1]}
               /\ Len(requests') = Len(requests) + 1 ]_vars

C6_Witness ==
  /\ Len(requests) = 2
  /\ ~IsInit(requests[1])
  /\ ~IsInit(requests[2])
  /\ Carried(requests[1]) = <<1>>
  /\ Carried(requests[2]) = <<1>>
  /\ requests[1].transport = requests[2].transport
  /\ created[requests[1].transport[1]].sessionId = <<1>>

\* C7 as stated: a non-initialize request without a session id is answered 400
\* MISSING_SESSION_ID, any request whose id is not in the routing table is
\* answered 404 UNKNOWN_SESSION, and neither is handed to a transport.
C7_EveryUnknownIdRejected ==
  [][ Arrives =>
        /\ (~IsInit(NewRequest) /\ Carried(NewRequest) = <<>>)
             => /\ NewRequest.response = Rejection(400, "MISSING_SESSION_ID")
                /\ NewRequest.transport = <<>>
        /\ (Carried(NewRequest) # <<>> /\ Carried(NewRequest)[1] \notin DOMAIN transports)
             => /\ NewRequest.response = Rejection(404, "UNKNOWN_SESSION")
                /\ NewRequest.transport = <<>> ]_vars

\* C7 amended: a non-initialize request without a session id is answered 400
\* MISSING_SESSION_ID, a non-initialize request whose id is not in the routing
\* table is answered 404 UNKNOWN_SESSION, and neither is handed to a transport.
C7_NonInitializeRejected ==
  [][ (Arrives /\ ~IsInit(NewRequest)) =>
        /\ Carried(NewRequest) = <<>>
             => /\ NewRequest.response = Rejection(400, "MISSING_SESSION_ID")
                /\ NewRequest.transport = <<>>
                /\ requests' = requests
        /\ (Carried(NewRequest) # <<>> /\ Carried(NewRequest)[1] \notin DOMAIN transports)
             => /\ NewRequest.response = Rejection(404, "UNKNOWN_SESSION")
                /\ NewRequest.transport = <<>>
                /\ requests' = requests ]_vars

C7_Witness ==
  /\ answered # <<>>
  /\ ~IsInit(answered[1])
  /\ answered[1].path = <<0>>
  /\ answered[1].header = <<>>
  /\ answered[1].response = Rejection(404, "UNKNOWN_SESSION")
  /\ DOMAIN transports = {1}

\* C8: once the transport of a session has disconnected its session id is not
\* in the routing table, and a request that carries the id is answered 404
\* UNKNOWN_SESSION.
C8_DisconnectRemovesSession ==
  [][ /\ \A t \in 1..Len(created') :
           created'[t].closed => created'[t].sessionId[1] \notin DOMAIN transports'
      /\ Arrives =>
           \A t \in 1..Len(created) :
             (created[t].closed /\ Carried(NewRequest) = created[t].sessionId)
               => NewRequest.response = Rejection(404, "UNKNOWN_SESSION") ]_vars

\* C9: a request handled on an established session is answered through the
\* transport of that session.
C9_AnsweredThroughOwnTransport ==
  (answered # <<>> /\ answered[1].answeredVia # <<>>)
    => answered[1].answeredVia = answered[1].transport


\* The step stores the transport of an initialize request under a session id.
SessionCreated ==
  \E r \in 1..Len(requests), sid \in DOMAIN transports' :
    /\ IsInit(requests[r])
    /\ requests' = Without(requests, r)
    /\ DOMAIN transports' = DOMAIN transports \cup {sid}
    /\ transports'[sid] = requests[r].transport[1]
    /\ \A s \in DOMAIN transports \ {sid} : transports'[s] = transports[s]

\* The step is the disconnect of a transport and deletes its session id.
SessionRemoved ==
  \E t \in 1..Len(created) :
    /\ created[t].sessionId # <<>>
    /\ ~created[t].closed
    /\ created'[t].closed
    /\ requests' = requests
    /\ transports' = [s \in DOMAIN transports \ {created[t].sessionId[1]} |->
                        transports[s]]

\* C25: the session table is changed only by the creation of a session on an
\* initialize request and by the removal of a session on disconnect; a request
\* that is routed to a transport, rejected with MISSING_SESSION_ID or
\* UNKNOWN_SESSION, or whose handling throws, leaves the table as it was.
C25_TableChangedOnlyByCreateAndRemove ==
  [][ /\ transports' # transports => (SessionCreated \/ SessionRemoved)
      /\ (Arrives \/ (answered' # answered /\ ~IsInit(answered'[1])))
           => transports' = transports ]_vars

C25_Witness ==
  /\ DOMAIN transports # {}
  /\ answered # <<>>
  /\ ~IsInit(answered[1])
  /\ answered[1].response = Rejection(500, "REQUEST_HANDLING_FAILED")
  /\ answered[1].transport # <<>>
  /\ \E s \in DOMAIN transports : transports[s] = answered[1].transport[1]


\* ================================================ properties: error handler
Min(a, b) == IF a < b THEN a ELSE b

\* The last m entries of a sequence, oldest first.
Last(seq, m) == SubSeq(seq, Len(seq) - m + 1, Len(seq))

\* C24: the history never holds more than 100 entries and is exactly the most
\* recent min(n, 100) classified errors, oldest first, where n is the number of
\* classifications since the last reset.
C24_HistoryIsRecentWindow ==
  /\ Len(errorHistory) <= maxHistorySize
  /\ errorHistory = Last(handled, Min(Len(handled), maxHistorySize))

C24_Witness ==
  /\ Len(handled) = maxHistorySize + 2
  /\ Len(errorHistory) = maxHistorySize
  /\ errorHistory[1] = handled[3]
  /\ errorHistory[maxHistorySize] = handled[maxHistorySize + 2]

RECURSIVE SumOver(_, _)
SumOver(counters, keys) ==
  IF keys = {} THEN 0
  ELSE LET k == CHOOSE k \in keys : TRUE
       IN counters[k] + SumOver(counters, keys \ {k})

\* C27: totalErrors equals the sum of the counters by code and the sum of the
\* counters by severity (and the number of classifications since the last
\* reset); after clearStats the three counters and the history are empty.
C27_CountersAgree ==
  /\ stats.totalErrors = SumOver(stats.errorsByCode, Codes)
  /\ stats.totalErrors = SumOver(stats.errorsBySeverity, Severities)
  /\ stats.totalErrors = Len(handled)
  /\ handled = <<>> => (stats = EmptyStats /\ errorHistory = <<>>)

C27_Witness ==
  /\ handledTotal = 5
  /\ Len(handled) = 2
  /\ stats.totalErrors = 2
  /\ stats.errorsByCode["INVALID_PARAMS"] = 1
  /\ stats.errorsBySeverity["critical"] = 1

\* C29: for every limit >= 0, getRecentErrors(limit) returns the
\* min(limit, length) most recent errors of the history, oldest first, and
\* never more than limit of them.
C29_RecentErrorsBounded ==
  recent.kind = "result" =>
    /\ recent.result = Last(errorHistory, Min(recent.limit, Len(errorHistory)))
    /\ Len(recent.result) <= recent.limit

\* ========================================== properties: startup and health
\* C22: when loading or validating the configuration fails (a malformed base
\* URL, a timeout <= 0, a negative retry count), the startup of the stdio
\* server fails: the server never connects its transport.
C22_BadConfigurationNeverConnects ==
  (entry \in {"index", "main"} /\ loadConfig(env).kind = "throw")
    => startup # "serving"

\* C30: the health endpoint reports services.ldims_api = true only when its
\* probe of the backend succeeded, and false when the backend is unreachable
\* or answers with an error.
C30_HealthReportsProbe ==
  health.kind = "response" =>
    LET r == searchDocuments(<<[query |-> "test", maxResults |-> <<1>>]>>, health.probe)
    IN health.services.ldims_api
         <=> (r.kind = "return" /\ ~isErrorResponse(r.value))

====
